---- MODULE Spec2Model ----
(***************************************************************************)
(* Bootstrap of the studio's native shell:                                 *)
(*   packages/app/studio/src-tauri/src/lib.rs, fn run().                   *)
(*                                                                         *)
(* Every process of the application executes run().  What run() itself     *)
(* does (the plugin chain, the cfg gates, the two closures, the expect) is *)
(* translated from lib.rs.  What the host runtime does between the calls   *)
(* (initialisation, the single-instance lock, window creation and closure, *)
(* the event loop) is not in lib.rs; it is modelled as the environment     *)
(* described by the specification, sections 4.3, 4.5 and 5.                *)
(***************************************************************************)
EXTENDS Naturals, Sequences, FiniteSets

\* Number of processes of the application that may be launched.
NProcs == 3

Procs == 1..NProcs

\* What a launch may carry: an argument list and a working directory.
Launches == {[args |-> <<"--foo">>, cwd |-> "/tmp"],
             [args |-> <<>>, cwd |-> "/home"]}

\* No process holds the single-instance lock.
NoProc == {}

VARIABLES
    debug_assertions,  \* cfg(debug_assertions): the build component of BuildMode
    desktop,           \* cfg(desktop): the platform component of BuildMode
    pc,                \* per process: the step of run() it is about to take
    args,              \* per process: the argument list it was launched with
    cwd,               \* per process: the working directory it was launched in
    builder,           \* per process: plugins registered on tauri::Builder, in order
    steps,             \* per process: the steps of run() it has completed, in order
    primary,           \* the set of processes holding the single-instance lock
    window,            \* per process: does a webview window labelled "main" exist
    focused,           \* per process: does its "main" window hold OS focus
    focusReq,          \* per process: number of window.set_focus() calls
    devtools,          \* per process: number of window.open_devtools() calls
    calls,             \* per process: invocations of its single-instance callback,
                       \* each with whether "main" was found and set_focus succeeded
    diag,              \* per process: the panic message, "" when none
    failed,            \* per process: has the runtime returned Err to run()
    relaunchLast       \* per process: was its latest event a relaunch callback

vars == <<debug_assertions, desktop, pc, args, cwd, builder, steps, primary,
          window, focused, focusReq, devtools, calls, diag, failed,
          relaunchLast>>

(***************************************************************************)
(* run(): the straight-line code                                           *)
(***************************************************************************)

\* BasePlugins with the process and os registrations exchanged.
BasePlugins_swapped == <<"shell", "dialog", "fs", "os", "process", "http">>

\* lib.rs 8-14: the plugins every build registers, in source order.
BasePlugins == <<"shell", "dialog", "fs", "process", "os", "http">>

\* DesktopPlugins without the single-instance registration.
DesktopPlugins_updater_only == <<"updater">>

\* lib.rs 17-27: the plugins under #[cfg(desktop)], in source order.
DesktopPlugins == <<"single-instance", "updater">>

\* desktop_block that probes at run time whether an instance is running.
desktop_block_probing(b, isDesktop) ==
    IF isDesktop /\ primary = NoProc THEN b \o DesktopPlugins ELSE b

\* desktop_block without the cfg(desktop) gate.
desktop_block_ungated(b, isDesktop) == b \o DesktopPlugins

\* lib.rs 16-27: the cfg(desktop) block; compiled out on mobile.
desktop_block(b, isDesktop) == IF isDesktop THEN b \o DesktopPlugins ELSE b

\* RunSteps with the setup logic executed before the runtime is started.
RunSteps_eager_setup == <<"base", "gate", "setup", "start", "loop">>

\* RunSteps with the setup logic executed after the event loop is entered.
RunSteps_late_setup == <<"base", "gate", "start", "loop", "setup">>

\* lib.rs 4-42: the order in which run() performs its steps.
RunSteps == <<"base", "gate", "start", "setup", "loop">>

\* After that repeats the setup step while a process at setup has no window.
After_retry_setup(s) ==
    IF s = "setup" /\ \E p \in Procs : pc[p] = "setup" /\ ~window[p]
    THEN "setup"
    ELSE LET i == CHOOSE k \in 1..Len(RunSteps) : RunSteps[k] = s
         IN IF i < Len(RunSteps) THEN RunSteps[i + 1] ELSE "running"

\* The label that follows step s in run(); "running" after the last.
After(s) ==
    LET i == CHOOSE k \in 1..Len(RunSteps) : RunSteps[k] = s
    IN IF i < Len(RunSteps) THEN RunSteps[i + 1] ELSE "running"

\* lib.rs 41: the message of .expect(...).
ExpectMessage == "error while running tauri application"

\* expect replaced by a discarded result: run() carries on after an Err.
expect_discarded(result) == [pc |-> After("start"), diag |-> ""]

\* lib.rs 40-41: .run(..).expect(..) on the runtime's result.
expect(result) ==
    IF result = "Err"
    THEN [pc |-> "panicked", diag |-> ExpectMessage]
    ELSE [pc |-> After("start"), diag |-> ""]

\* setup_closure without the cfg(debug_assertions) gate.
setup_closure_ungated(p, isDebug) ==
    [devtools |-> IF window[p] THEN devtools[p] + 1 ELSE devtools[p],
     result   |-> "Ok"]

\* lib.rs 30-39: the setup closure, on a process whose "main" window exists
\* or not.  Gives the process's devtools count and the closure's result.
setup_closure(p, isDebug) ==
    [devtools |-> IF isDebug /\ window[p] THEN devtools[p] + 1 ELSE devtools[p],
     result   |-> "Ok"]

\* single_instance_callback that looks the window up and does not focus it.
single_instance_callback_no_focus(q, ok) ==
    [focusReq |-> focusReq[q],
     focused  |-> focused[q],
     devtools |-> devtools[q],
     panicked |-> FALSE]

\* single_instance_callback that unwraps the window lookup.
single_instance_callback_unwrap(q, ok) ==
    [focusReq |-> IF window[q] THEN focusReq[q] + 1 ELSE focusReq[q],
     focused  |-> IF window[q] /\ ok THEN TRUE ELSE focused[q],
     devtools |-> devtools[q],
     panicked |-> ~window[q]]

\* single_instance_callback that also opens the devtools of the window.
single_instance_callback_devtools(q, ok) ==
    [focusReq |-> IF window[q] THEN focusReq[q] + 1 ELSE focusReq[q],
     focused  |-> IF window[q] /\ ok THEN TRUE ELSE focused[q],
     devtools |-> IF window[q] THEN devtools[q] + 1 ELSE devtools[q],
     panicked |-> FALSE]

\* single_instance_callback that toggles the focus of the window.
single_instance_callback_toggle(q, ok) ==
    [focusReq |-> IF window[q] THEN focusReq[q] + 1 ELSE focusReq[q],
     focused  |-> IF window[q] /\ ok THEN ~focused[q] ELSE focused[q],
     devtools |-> devtools[q],
     panicked |-> FALSE]

\* single_instance_callback that unwraps the result of set_focus.
single_instance_callback_unwrap_focus(q, ok) ==
    [focusReq |-> IF window[q] THEN focusReq[q] + 1 ELSE focusReq[q],
     focused  |-> IF window[q] /\ ok THEN TRUE ELSE focused[q],
     devtools |-> devtools[q],
     panicked |-> window[q] /\ ~ok]

\* lib.rs 20-25: the single-instance callback run in process q; ok is the
\* outcome of window.set_focus(), which the closure discards.
single_instance_callback(q, ok) ==
    [focusReq |-> IF window[q] THEN focusReq[q] + 1 ELSE focusReq[q],
     focused  |-> IF window[q] /\ ok THEN TRUE ELSE focused[q],
     devtools |-> devtools[q],
     panicked |-> FALSE]

Range(s) == {s[i] : i \in 1..Len(s)}

(***************************************************************************)
(* Initial state: nothing launched; BuildMode fixed by the build.          *)
(***************************************************************************)
Init ==
    /\ debug_assertions \in BOOLEAN
    /\ desktop \in BOOLEAN
    /\ pc = [p \in Procs |-> "idle"]
    /\ args = [p \in Procs |-> <<>>]
    /\ cwd = [p \in Procs |-> ""]
    /\ builder = [p \in Procs |-> <<>>]
    /\ steps = [p \in Procs |-> <<>>]
    /\ primary = NoProc
    /\ window = [p \in Procs |-> FALSE]
    /\ focused = [p \in Procs |-> FALSE]
    /\ focusReq = [p \in Procs |-> 0]
    /\ devtools = [p \in Procs |-> 0]
    /\ calls = [p \in Procs |-> <<>>]
    /\ diag = [p \in Procs |-> ""]
    /\ failed = [p \in Procs |-> FALSE]
    /\ relaunchLast = [p \in Procs |-> FALSE]

(***************************************************************************)
(* Actions                                                                 *)
(***************************************************************************)

\* The host launcher starts process p; run() begins with an empty Builder.
\* Process identifiers are handed out in launch order.
Launch(p, l) ==
    /\ pc[p] = "idle"
    /\ \A o \in Procs : o < p => pc[o] # "idle"
    /\ pc' = [pc EXCEPT ![p] = RunSteps[1]]
    /\ args' = [args EXCEPT ![p] = l.args]
    /\ cwd' = [cwd EXCEPT ![p] = l.cwd]
    /\ builder' = [builder EXCEPT ![p] = <<>>]
    /\ UNCHANGED <<debug_assertions, desktop, steps, primary, window, focused,
                   focusReq, devtools, calls, diag, failed>>
    /\ UNCHANGED relaunchLast

\* lib.rs 8-14.
RegisterBase(p) ==
    /\ pc[p] = "base"
    /\ builder' = [builder EXCEPT ![p] = @ \o BasePlugins]
    /\ steps' = [steps EXCEPT ![p] = Append(@, "base")]
    /\ pc' = [pc EXCEPT ![p] = After("base")]
    /\ UNCHANGED <<debug_assertions, desktop, args, cwd, primary, window,
                   focused, focusReq, devtools, calls, diag, failed>>
    /\ UNCHANGED relaunchLast

\* lib.rs 16-27.
PlatformGate(p) ==
    /\ pc[p] = "gate"
    /\ builder' = [builder EXCEPT ![p] = desktop_block(@, desktop)]
    /\ steps' = [steps EXCEPT ![p] = Append(@, "gate")]
    /\ pc' = [pc EXCEPT ![p] = After("gate")]
    /\ UNCHANGED <<debug_assertions, desktop, args, cwd, primary, window,
                   focused, focusReq, devtools, calls, diag, failed>>
    /\ UNCHANGED relaunchLast

\* lib.rs 40-41: the host runtime fails to initialise; run() returns Err and
\* expect panics.
StartFail(p) ==
    /\ pc[p] = "start"
    /\ pc' = [pc EXCEPT ![p] = expect("Err").pc]
    /\ diag' = [diag EXCEPT ![p] = expect("Err").diag]
    /\ UNCHANGED <<debug_assertions, desktop, args, cwd, builder, steps,
                   primary, window, focused, focusReq, devtools, calls>>
    /\ failed' = [failed EXCEPT ![p] = TRUE]
    /\ UNCHANGED relaunchLast

\* lib.rs 40: the host runtime initialises the registered plugins.  With the
\* single-instance plugin registered it takes the lock, which must be free.
StartPrimary(p) ==
    /\ pc[p] = "start"
    /\ IF "single-instance" \in Range(builder[p])
       THEN primary = NoProc /\ primary' = {p}
       ELSE UNCHANGED primary
    /\ steps' = [steps EXCEPT ![p] = Append(@, "start")]
    /\ pc' = [pc EXCEPT ![p] = expect("Ok").pc]
    /\ UNCHANGED <<debug_assertions, desktop, args, cwd, builder, window,
                   focused, focusReq, devtools, calls, diag, failed>>
    /\ UNCHANGED relaunchLast

\* lib.rs 20-25 and 40: process p, with the single-instance plugin
\* registered, finds the lock held by q.  The runtime invokes q's callback
\* with p's arguments and working directory, and p exits.
SecondInstance(p, q, ok) ==
    /\ pc[p] = "start"
    /\ "single-instance" \in Range(builder[p])
    /\ q # p
    /\ primary = {q}
    /\ LET r == single_instance_callback(q, ok) IN
        /\ focusReq' = [focusReq EXCEPT ![q] = r.focusReq]
        /\ focused' = [focused EXCEPT ![q] = r.focused]
        /\ devtools' = [devtools EXCEPT ![q] = r.devtools]
        /\ calls' = [calls EXCEPT ![q] =
                        Append(@, [from |-> p, args |-> args[p], cwd |-> cwd[p],
                                   found |-> window[q],
                                   ok |-> window[q] /\ ok])]
        /\ IF r.panicked
           THEN /\ pc' = [pc EXCEPT ![p] = "secondary", ![q] = "panicked"]
                /\ diag' = [diag EXCEPT ![q] = "panic in single-instance callback"]
                /\ primary' = NoProc
           ELSE /\ pc' = [pc EXCEPT ![p] = "secondary"]
                /\ UNCHANGED <<diag, primary>>
    /\ UNCHANGED <<debug_assertions, desktop, args, cwd, builder, steps, window,
                   failed>>
    /\ relaunchLast' = [relaunchLast EXCEPT ![q] = TRUE]

\* lib.rs 29-39: the runtime runs the setup closure.
SetupHook(p) ==
    /\ pc[p] = "setup"
    /\ LET r == setup_closure(p, debug_assertions) IN
        /\ devtools' = [devtools EXCEPT ![p] = r.devtools]
        /\ pc' = [pc EXCEPT ![p] = IF r.result = "Ok" THEN After("setup")
                                   ELSE expect("Err").pc]
        /\ diag' = [diag EXCEPT ![p] = IF r.result = "Ok" THEN @
                                       ELSE expect("Err").diag]
        /\ failed' = [failed EXCEPT ![p] = r.result # "Ok"]
    /\ steps' = [steps EXCEPT ![p] = Append(@, "setup")]
    /\ UNCHANGED <<debug_assertions, desktop, args, cwd, builder, primary,
                   window, focused, focusReq, calls>>
    /\ relaunchLast' = [relaunchLast EXCEPT ![p] = FALSE]

\* lib.rs 40: the runtime enters the blocking event loop.
EnterLoop(p) ==
    /\ pc[p] = "loop"
    /\ steps' = [steps EXCEPT ![p] = Append(@, "loop")]
    /\ pc' = [pc EXCEPT ![p] = After("loop")]
    /\ UNCHANGED <<debug_assertions, desktop, args, cwd, builder, primary,
                   window, focused, focusReq, devtools, calls, diag, failed>>
    /\ relaunchLast' = [relaunchLast EXCEPT ![p] = FALSE]

\* The runtime is up in p: past "start" and not terminated.
Alive(p) == pc[p] \in {"setup", "loop", "running"}

\* The application creates the window labelled "main".
CreateWindow(p) ==
    /\ Alive(p)
    /\ ~window[p]
    /\ window' = [window EXCEPT ![p] = TRUE]
    /\ UNCHANGED <<debug_assertions, desktop, pc, args, cwd, builder, steps,
                   primary, focused, focusReq, devtools, calls, diag, failed>>
    /\ relaunchLast' = [relaunchLast EXCEPT ![p] = FALSE]

\* The "main" window is closed.
CloseWindow(p) ==
    /\ Alive(p)
    /\ window[p]
    /\ window' = [window EXCEPT ![p] = FALSE]
    /\ focused' = [focused EXCEPT ![p] = FALSE]
    /\ UNCHANGED <<debug_assertions, desktop, pc, args, cwd, builder, steps,
                   primary, focusReq, devtools, calls, diag, failed>>
    /\ relaunchLast' = [relaunchLast EXCEPT ![p] = FALSE]

\* The "main" window loses OS focus to another application.
Blur(p) ==
    /\ Alive(p)
    /\ focused[p]
    /\ focused' = [focused EXCEPT ![p] = FALSE]
    /\ UNCHANGED <<debug_assertions, desktop, pc, args, cwd, builder, steps,
                   primary, window, focusReq, devtools, calls, diag, failed>>
    /\ relaunchLast' = [relaunchLast EXCEPT ![p] = FALSE]

\* The application quits: the event loop returns and the lock is released.
Exit(p) ==
    /\ pc[p] = "running"
    /\ pc' = [pc EXCEPT ![p] = "exited"]
    /\ primary' = primary \ {p}
    /\ window' = [window EXCEPT ![p] = FALSE]
    /\ focused' = [focused EXCEPT ![p] = FALSE]
    /\ UNCHANGED <<debug_assertions, desktop, args, cwd, builder, steps,
                   focusReq, devtools, calls, diag, failed>>
    /\ relaunchLast' = [relaunchLast EXCEPT ![p] = FALSE]

Next ==
    \/ \E p \in Procs, l \in Launches : Launch(p, l)
    \/ \E p \in Procs : RegisterBase(p)
    \/ \E p \in Procs : PlatformGate(p)
    \/ \E p \in Procs : StartFail(p)
    \/ \E p \in Procs : StartPrimary(p)
    \/ \E p \in Procs, q \in Procs, ok \in BOOLEAN : SecondInstance(p, q, ok)
    \/ \E p \in Procs : SetupHook(p)
    \/ \E p \in Procs : EnterLoop(p)
    \/ \E p \in Procs : CreateWindow(p)
    \/ \E p \in Procs : CloseWindow(p)
    \/ \E p \in Procs : Blur(p)
    \/ \E p \in Procs : Exit(p)

Spec == Init /\ [][Next]_vars

(***************************************************************************)
(* Properties                                                              *)
(***************************************************************************)

NoDuplicates(s) == \A i, j \in 1..Len(s) : i # j => s[i] # s[j]

IsPrefix(s, t) == Len(s) <= Len(t) /\ \A i \in 1..Len(s) : s[i] = t[i]

\* The runtime of p has been started: p is at or past the setup step.
ReachedSetup(p) == pc[p] \in {"setup", "loop", "running", "exited"}

\* C1: when run() reaches the setup step, the registered capabilities are
\* exactly shell, dialog, fs, process, os, http on mobile and that sequence
\* followed by single-instance, updater on desktop, without duplicates,
\* whatever the debug/release component is.
C1_CapabilitySequence ==
    \A p \in Procs :
        ReachedSetup(p) =>
            /\ builder[p] =
                 IF desktop
                 THEN <<"shell", "dialog", "fs", "process", "os", "http",
                        "single-instance", "updater">>
                 ELSE <<"shell", "dialog", "fs", "process", "os", "http">>
            /\ NoDuplicates(builder[p])

\* C1 witness: a release desktop process at the setup step with eight plugins
\* while a mobile-sized prefix of six is what another process has so far.
C1_Witness ==
    /\ desktop /\ ~debug_assertions
    /\ \E p, q \in Procs :
        /\ pc[p] = "setup" /\ Len(builder[p]) = 8
        /\ pc[q] = "gate" /\ Len(builder[q]) = 6

\* C2 as stated: a process that found a primary running has registered no
\* capability, has no window and never entered the event loop.
C2_Original ==
    desktop =>
        \A p \in Procs :
            pc[p] = "secondary" =>
                /\ builder[p] = <<>>
                /\ ~window[p]
                /\ "loop" \notin Range(steps[p])

\* C2 amended: on desktop a process that found a primary running has taken
\* only the two registration steps (all eight capabilities are on its own
\* builder), has not run the setup hook, has no window, has not entered
\* the event loop, and stays terminated.
C2_SecondaryStopsBeforeSetup ==
    /\ [](desktop =>
            \A p \in Procs :
                pc[p] = "secondary" =>
                    /\ Len(builder[p]) = 8
                    /\ "setup" \notin Range(steps[p])
                    /\ "loop" \notin Range(steps[p])
                    /\ ~window[p]
                    /\ devtools[p] = 0)
    /\ [][\A p \in Procs : pc[p] = "secondary" => pc'[p] = "secondary"]_vars

\* C2 witness: a secondary has terminated while the primary keeps running
\* with its window.
C2_Witness ==
    /\ desktop
    /\ \E p, q \in Procs :
        /\ pc[p] = "secondary"
        /\ primary = {q} /\ pc[q] = "running" /\ window[q]

\* The invocations of q's callback made for secondary process p.
CallsFor(q, p) == {i \in 1..Len(calls[q]) : calls[q][i].from = p}

\* C3: on desktop every secondary launch invokes the primary's callback
\* exactly once, with that process's arguments and working directory; no
\* other invocation happens; and every invocation that finds "main" requests
\* focus on it.
C3_RelaunchExactlyOnce ==
    desktop =>
        /\ \A p \in Procs :
            LET n == Cardinality({qi \in Procs \X (1..NProcs) :
                                    qi[2] \in CallsFor(qi[1], p)})
            IN /\ n = (IF pc[p] = "secondary" THEN 1 ELSE 0)
               /\ \A q \in Procs : \A i \in CallsFor(q, p) :
                    /\ calls[q][i].args = args[p]
                    /\ calls[q][i].cwd = cwd[p]
                    /\ q # p
        /\ \A q \in Procs :
            focusReq[q] = Cardinality({i \in 1..Len(calls[q]) : calls[q][i].found})

\* C3 witness: one primary has served two secondaries that carried different
\* arguments, and found its window the first time.
C3_Witness ==
    /\ desktop
    /\ \E q \in Procs :
        /\ Len(calls[q]) = 2
        /\ calls[q][1].args # calls[q][2].args
        /\ calls[q][1].found
        /\ focusReq[q] >= 1

\* C4: on desktop at most one process has its runtime up (setup hook or
\* event loop) at any time, and it is the holder of the lock.
C4_AtMostOnePrimary ==
    desktop =>
        /\ Cardinality({p \in Procs : Alive(p)}) <= 1
        /\ \A p \in Procs : Alive(p) => primary = {p}

\* C4 witness: the primary is in the event loop while a second process is
\* about to start its runtime and a third has already been turned away.
C4_Witness ==
    /\ desktop
    /\ \E p, q, r \in Procs :
        /\ pc[p] = "running" /\ primary = {p}
        /\ pc[q] = "start"
        /\ pc[r] = "secondary"

\* C5 as stated: once the setup hook has run, devtools were opened if and
\* only if the build is a debug build.
C5_Original ==
    \A p \in Procs :
        "setup" \in Range(steps[p]) => (devtools[p] = 1 <=> debug_assertions)

\* C5 amended: the setup hook opens devtools if and only if the build is a
\* debug build and the window "main" exists when the hook runs; in release
\* it opens nothing whether or not the window exists.
C5_DevtoolsIffDebugAndWindow ==
    [][\A p \in Procs :
          (pc[p] = "setup" /\ pc'[p] # "setup") =>
              devtools'[p] =
                  devtools[p] + (IF debug_assertions /\ window[p] THEN 1 ELSE 0)]_vars

\* C5 witness: a debug process whose hook ran before the window existed; the
\* window exists now and devtools were not opened.
C5_Witness ==
    /\ debug_assertions
    /\ \E p \in Procs :
        /\ "setup" \in Range(steps[p])
        /\ window[p]
        /\ devtools[p] = 0

\* C6: with no window "main", a relaunch callback leaves its process exactly
\* as it was, and the setup hook moves its process on to the event loop with
\* no window action, no error and no termination.
C6_MissingWindowIsNoOp ==
    [][\A p \in Procs :
          /\ (Len(calls'[p]) > Len(calls[p]) /\ ~window[p]) =>
                /\ pc'[p] = pc[p]
                /\ diag'[p] = diag[p]
                /\ failed'[p] = failed[p]
                /\ focusReq'[p] = focusReq[p]
                /\ focused'[p] = focused[p]
                /\ devtools'[p] = devtools[p]
                /\ window'[p] = window[p]
          /\ (pc[p] = "setup" /\ pc'[p] # "setup" /\ ~window[p]) =>
                /\ pc'[p] = "loop"
                /\ diag'[p] = ""
                /\ ~failed'[p]
                /\ focusReq'[p] = focusReq[p]
                /\ focused'[p] = focused[p]
                /\ devtools'[p] = devtools[p]
                /\ window'[p] = window[p]]_vars

\* C6 witness: a debug process that ran its hook without a window, then
\* served a relaunch after its window had been created and closed again, and
\* is still in the event loop.
C6_Witness ==
    /\ debug_assertions
    /\ \E p \in Procs :
        /\ pc[p] = "running"
        /\ devtools[p] = 0
        /\ Len(calls[p]) = 2
        /\ calls[p][1].found
        /\ ~calls[p][2].found

\* C7: every process takes the steps of run() in the order base
\* registration, platform gate, runtime start, setup hook, event loop; the
\* hook runs at most once and never after the loop was entered.
C7_StrictOrder ==
    \A p \in Procs :
        /\ IsPrefix(steps[p], <<"base", "gate", "start", "setup", "loop">>)
        /\ pc[p] = "running" => steps[p] = <<"base", "gate", "start", "setup", "loop">>

\* C7 witness: a process in the event loop beside one that has only passed
\* the platform gate.
C7_Witness ==
    \E p, q \in Procs :
        /\ pc[p] = "running" /\ Len(steps[p]) = 5
        /\ steps[q] = <<"base", "gate">>

\* C8: a process whose startup failed has panicked with the diagnostic of
\* expect, has not run the setup hook or entered the event loop, holds no
\* lock, and never leaves that state.
C8_FailFast ==
    \A p \in Procs :
        failed[p] =>
            /\ pc[p] = "panicked"
            /\ diag[p] = "error while running tauri application"
            /\ steps[p] = <<"base", "gate">>
            /\ p \notin primary
            /\ ~window[p]

\* C8 witness: one process failed at startup; a later one runs.
C8_Witness ==
    \E p, q \in Procs :
        /\ failed[p] /\ pc[p] = "panicked"
        /\ pc[q] = "running" /\ p < q

\* C10: a process opens devtools at most once, only in its setup hook, and
\* never while its relaunch callback is invoked.
C10_DevtoolsOnlyAtSetup ==
    /\ [](\A p \in Procs : devtools[p] <= 1)
    /\ [][\A p \in Procs :
            devtools'[p] # devtools[p] =>
                /\ pc[p] = "setup"
                /\ pc'[p] = "loop"
                /\ calls'[p] = calls[p]]_vars

\* C10 witness: a debug primary that opened devtools at setup and has since
\* served two relaunches with its window present.
C10_Witness ==
    \E p \in Procs :
        /\ devtools[p] = 1
        /\ Len(calls[p]) = 2
        /\ calls[p][1].found /\ calls[p][2].found

\* The platform gate has been applied in p.
PastGate(p) == "gate" \in Range(steps[p])

\* C11: any two runs of the same build register the same capability
\* sequence once past the platform gate, whatever their arguments, working
\* directory, window state or the presence of another instance; and the two
\* components of BuildMode never change.
C11_GateDependsOnBuildModeOnly ==
    /\ [](\A p, q \in Procs :
            (PastGate(p) /\ PastGate(q)) => builder[p] = builder[q])
    /\ [][debug_assertions' = debug_assertions /\ desktop' = desktop]_vars

\* C11 witness: a desktop primary in the event loop with its window, and a
\* second process with other arguments and directory that passed the gate
\* while that primary was running.
C11_Witness ==
    /\ desktop
    /\ \E p, q \in Procs :
        /\ pc[p] = "running" /\ window[p] /\ primary = {p}
        /\ pc[q] = "start" /\ p < q
        /\ args[p] # args[q] /\ cwd[p] # cwd[q]
        /\ Len(builder[q]) = 8

\* The coordinator of p is Listening: the runtime has initialised the
\* single-instance plugin in p and p holds the lock.
Listening(p) == p \in primary

\* C12: the coordinator enters Listening only on desktop and only at the
\* runtime start of its process, stays Listening across every relaunch
\* callback, and leaves Listening only when its process terminates; a
\* process whose runtime is up on desktop is Listening; on mobile nothing is
\* ever Listening and no callback is invoked.
C12_CoordinatorStateMachine ==
    /\ [](\A p \in Procs :
            /\ (desktop /\ Alive(p)) => Listening(p)
            /\ Listening(p) => (desktop /\ Alive(p))
            /\ ~desktop => calls[p] = <<>>)
    /\ [][\A p \in Procs :
            /\ (~Listening(p) /\ Listening(p)') =>
                    (pc[p] = "start" /\ pc'[p] = "setup")
            /\ (Listening(p) /\ ~Listening(p)') =>
                    (pc'[p] = "exited" /\ calls'[p] = calls[p])
            /\ Len(calls'[p]) > Len(calls[p]) =>
                    (Listening(p) /\ Listening(p)')]_vars

\* C12 witness: a coordinator still Listening after two relaunches, in the
\* event loop.
C12_Witness ==
    \E p \in Procs :
        /\ Listening(p)
        /\ pc[p] = "running"
        /\ Len(calls[p]) = 2
        /\ ~calls[p][1].found

\* C13: a relaunch callback leaves the primary's capability sequence,
\* devtools count, window, position in run(), coordinator state, own
\* arguments and working directory, diagnostics and completed steps as they
\* were; only the focus request and the focus of "main" may change.
C13_RelaunchFrame ==
    [][\A q \in Procs :
          Len(calls'[q]) > Len(calls[q]) =>
              /\ builder'[q] = builder[q]
              /\ devtools'[q] = devtools[q]
              /\ window' = window
              /\ pc'[q] = pc[q]
              /\ Listening(q)' = Listening(q)
              /\ args' = args
              /\ cwd' = cwd
              /\ steps' = steps
              /\ diag' = diag
              /\ failed' = failed
              /\ focusReq'[q] = focusReq[q] + (IF window[q] THEN 1 ELSE 0)
              /\ (~window[q] => focused'[q] = focused[q])]_vars

\* C13 witness: a debug primary launched without arguments that opened
\* devtools, then served a relaunch carrying "--foo" from "/tmp" and now
\* holds focus; its own arguments are still empty.
C13_Witness ==
    \E q \in Procs :
        /\ pc[q] = "running"
        /\ args[q] = <<>>
        /\ devtools[q] = 1
        /\ Len(calls[q]) = 1
        /\ calls[q][1].args = <<"--foo">> /\ calls[q][1].cwd = "/tmp"
        /\ focused[q]

\* C14: once the setup hook has run without opening devtools, devtools are
\* never opened in that process, whatever happens to its window and however
\* many relaunches it serves.
C14_NoDevtoolsRetry ==
    [][\A p \in Procs :
          ("setup" \in Range(steps[p]) /\ devtools[p] = 0) => devtools'[p] = 0]_vars

\* C14 witness: a debug process whose hook ran without a window; its window
\* was created afterwards and a relaunch found it, and devtools are still
\* not open.
C14_Witness ==
    /\ debug_assertions
    /\ \E p \in Procs :
        /\ "setup" \in Range(steps[p])
        /\ devtools[p] = 0
        /\ window[p]
        /\ Len(calls[p]) = 1
        /\ calls[p][1].found

\* A relaunch callback is invoked in q in this step.
RelaunchStep(q) == Len(calls'[q]) = Len(calls[q]) + 1

\* The step leaves what the program can observe of q as it was.
SameState(q) ==
    /\ window'[q] = window[q]
    /\ focused'[q] = focused[q]
    /\ devtools'[q] = devtools[q]
    /\ pc'[q] = pc[q]
    /\ builder'[q] = builder[q]
    /\ Listening(q)' = Listening(q)
    /\ diag'[q] = diag[q]

C16_FocusFailureDiscarded ==
    [][\A q \in Procs :
          (RelaunchStep(q) /\ calls'[q][Len(calls'[q])].found
                           /\ ~calls'[q][Len(calls'[q])].ok) =>
              /\ SameState(q)
              /\ Alive(q)'
              /\ Listening(q)'
              /\ ~failed'[q]
              /\ focusReq'[q] = focusReq[q] + 1]_vars

\* C16 witness: a primary in the event loop whose first focus request
\* failed and whose second, for a later relaunch, succeeded.
C16_Witness ==
    \E q \in Procs :
        /\ pc[q] = "running"
        /\ Listening(q)
        /\ Len(calls[q]) = 2
        /\ calls[q][1].found /\ ~calls[q][1].ok
        /\ calls[q][2].ok
        /\ focused[q]

====
